---- MODULE Spec2Model ----
(***************************************************************************)
(* Model of detect_secrets/core/usage.py: the command grammar built by     *)
(* ParserBuilder / ScanOptions / AuditOptions / PluginOptions, the limit   *)
(* validator PluginOptions._argparse_minmax_type and the consolidation of  *)
(* the parsed namespace by PluginOptions.consolidate_args.                 *)
(*                                                                         *)
(* Python strings that the code slices or rewrites (flag texts, attribute  *)
(* names, the text handed to float()) are sequences of one-character       *)
(* strings.  Python values stored in the namespace are records             *)
(* [t |-> type name, n |-> number, s |-> text]; a float carries its value  *)
(* in hundredths in n, and s names a non-finite float ("nan", "inf",       *)
(* "-inf").                                                                *)
(***************************************************************************)
EXTENDS Integers, Sequences, FiniteSets, TLC

\* ------------------------------------------------------------------ bounds
\* largest number of --no-*-scan flags on a command line
MaxDisableFlags == 1
\* largest number of plugin-group attributes missing from a namespace that a
\* caller hands directly to consolidate_args
MaxMissing == 1

\* ------------------------------------------------------------ Python values
None == [t |-> "NoneType", n |-> 0, s |-> ""]
True == [t |-> "bool", n |-> 1, s |-> ""]
False == [t |-> "bool", n |-> 0, s |-> ""]
PyInt(i) == [t |-> "int", n |-> 100 * i, s |-> ""]
PyFloat(hundredths) == [t |-> "float", n |-> hundredths, s |-> ""]
NaN == [t |-> "float", n |-> 0, s |-> "nan"]
Inf == [t |-> "float", n |-> 0, s |-> "inf"]
NegInf == [t |-> "float", n |-> 0, s |-> "-inf"]
PyStr(text) == [t |-> "str", n |-> 0, s |-> text]
PyList(len, text) == [t |-> "list", n |-> len, s |-> text]

IsNumber(v) == v.t \in {"int", "float", "bool"}
IsFinite(v) == IsNumber(v) /\ v.s = ""

\* Python's truth value of an object
Truthy(v) ==
    CASE v.t = "NoneType" -> FALSE
      [] v.t \in {"bool", "int"} -> v.n # 0
      [] v.t = "float" -> v.s # "" \/ v.n # 0
      [] v.t = "str" -> v.s # ""
      [] v.t = "list" -> v.n # 0
      [] OTHER -> TRUE

\* Python's `a is None`
IsNone(v) == v = None

\* Python's a < b and a > b on numbers; every comparison with nan is false
PyLess(a, b) ==
    IF a.s = "nan" \/ b.s = "nan" THEN FALSE
    ELSE IF a.s = "-inf" THEN b.s # "-inf"
    ELSE IF a.s = "inf" THEN FALSE
    ELSE IF b.s = "inf" THEN TRUE
    ELSE IF b.s = "-inf" THEN FALSE
    ELSE a.n < b.n

PyGreater(a, b) == PyLess(b, a)

\* Python's a == b on the values used here (3 == 3.0 is true, nan == nan is not)
PyEq(a, b) ==
    IF IsNumber(a) /\ IsNumber(b)
    THEN a.s # "nan" /\ b.s # "nan" /\ a.s = b.s /\ a.n = b.n
    ELSE a = b

\* ------------------------------------------------------- namespace and dicts
hasattr(obj, name) == name \in DOMAIN obj

\* the object after a successful delattr(obj, name)
delattr(obj, name) == [k \in (DOMAIN obj) \ {name} |-> obj[k]]

EmptyDict == [k \in {} |-> None]

\* d[key] = value
SetItem(d, key, value) ==
    [k \in (DOMAIN d) \cup {key} |-> IF k = key THEN value ELSE d[k]]


\* ------------------------------------------------------------ flag texts
\* the flag texts of PluginOptions.all_plugins and _add_custom_limits
hex_limit_flag ==
    <<"-", "-", "h", "e", "x", "-", "l", "i", "m", "i", "t">>
base64_limit_flag ==
    <<"-", "-", "b", "a", "s", "e", "6", "4", "-", "l", "i", "m", "i", "t">>
no_hex_string_scan_flag ==
    <<"-", "-", "n", "o", "-", "h", "e", "x", "-", "s", "t", "r", "i", "n",
    "g", "-", "s", "c", "a", "n">>
no_base64_string_scan_flag ==
    <<"-", "-", "n", "o", "-", "b", "a", "s", "e", "6", "4", "-", "s", "t",
    "r", "i", "n", "g", "-", "s", "c", "a", "n">>
no_private_key_scan_flag ==
    <<"-", "-", "n", "o", "-", "p", "r", "i", "v", "a", "t", "e", "-", "k",
    "e", "y", "-", "s", "c", "a", "n">>
no_basic_auth_scan_flag ==
    <<"-", "-", "n", "o", "-", "b", "a", "s", "i", "c", "-", "a", "u", "t",
    "h", "-", "s", "c", "a", "n">>
no_keyword_scan_flag ==
    <<"-", "-", "n", "o", "-", "k", "e", "y", "w", "o", "r", "d", "-", "s",
    "c", "a", "n">>
no_aws_key_scan_flag ==
    <<"-", "-", "n", "o", "-", "a", "w", "s", "-", "k", "e", "y", "-", "s",
    "c", "a", "n">>
no_slack_scan_flag ==
    <<"-", "-", "n", "o", "-", "s", "l", "a", "c", "k", "-", "s", "c", "a",
    "n">>

\* the attribute names argparse gives the arguments that are no plugin flags
dest_verbose ==
    <<"v", "e", "r", "b", "o", "s", "e">>
dest_filenames ==
    <<"f", "i", "l", "e", "n", "a", "m", "e", "s">>
dest_baseline ==
    <<"b", "a", "s", "e", "l", "i", "n", "e">>
dest_exclude_lines ==
    <<"e", "x", "c", "l", "u", "d", "e", "_", "l", "i", "n", "e", "s">>
dest_use_all_plugins ==
    <<"u", "s", "e", "_", "a", "l", "l", "_", "p", "l", "u", "g", "i", "n",
    "s">>
dest_action ==
    <<"a", "c", "t", "i", "o", "n">>
dest_path ==
    <<"p", "a", "t", "h">>
dest_exclude_files ==
    <<"e", "x", "c", "l", "u", "d", "e", "_", "f", "i", "l", "e", "s">>
dest_import_filename ==
    <<"i", "m", "p", "o", "r", "t", "_", "f", "i", "l", "e", "n", "a", "m",
    "e">>
dest_all_files ==
    <<"a", "l", "l", "_", "f", "i", "l", "e", "s">>
dest_string ==
    <<"s", "t", "r", "i", "n", "g">>
dest_filename ==
    <<"f", "i", "l", "e", "n", "a", "m", "e">>
dest_diff ==
    <<"d", "i", "f", "f">>

\* the literal 'hex_limit' of consolidate_args' canary test
canary ==
    <<"h", "e", "x", "_", "l", "i", "m", "i", "t">>

\* ------------------------------------------------------------ Python objects
\* A str or a tuple as it stands in a descriptor's related_args: chars holds a
\* str's characters or the flag text that is a tuple's first item, len the
\* length of the str or the tuple, default a tuple's second item.
StrObject(text) ==
    [type |-> "str", len |-> Len(text), chars |-> text, default |-> None]
TupleObject(n, flag_text, default_value) ==
    [type |-> "tuple", len |-> n, chars |-> flag_text, default |-> default_value]

\* str.replace(old, new) for one-character old and new
replace(text, old, new) ==
    [i \in 1..Len(text) |-> IF text[i] = old THEN new ELSE text[i]]

\* the unpacking with an except branch that takes the sequence's first item
UnpackRelatedArg_FirstItem(related_arg_tuple) ==
    IF related_arg_tuple.type = "tuple"
    THEN [flag_name |-> StrObject(related_arg_tuple.chars),
          default_value |-> IF related_arg_tuple.len = 2
                            THEN related_arg_tuple.default ELSE None]
    ELSE [flag_name |-> related_arg_tuple, default_value |-> None]

\* `flag_name, default_value = related_arg_tuple`, with the except ValueError
\* branch: a sequence of a length other than 2 is taken whole as flag_name.
\* A str of length 2 unpacks into its two characters.
UnpackRelatedArg(related_arg_tuple) ==
    IF related_arg_tuple.len = 2
    THEN IF related_arg_tuple.type = "tuple"
         THEN [flag_name |-> StrObject(related_arg_tuple.chars),
               default_value |-> related_arg_tuple.default]
         ELSE [flag_name |-> StrObject(<<related_arg_tuple.chars[1]>>),
               default_value |-> PyStr(related_arg_tuple.chars[2])]
    ELSE [flag_name |-> related_arg_tuple, default_value |-> None]

\* flag_text[2:].replace('-', '_'); a tuple can be sliced but has no replace
_convert_flag_text_to_argument_name(flag_text) ==
    IF flag_text.type = "str"
    THEN [exc |-> "",
          name |-> replace(SubSeq(flag_text.chars, 3, Len(flag_text.chars)),
                           "-", "_")]
    ELSE [exc |-> "AttributeError", name |-> <<>>]

\* the attribute name of a flag text that is a str
ArgumentName(text) == _convert_flag_text_to_argument_name(StrObject(text)).name

\* ------------------------------------------------------------ PluginCatalog
\* PluginDescriptor.__new__: related_args None or empty becomes []
PluginDescriptor(classname, disable_flag_text, related_args) ==
    [classname |-> classname,
     disable_flag_text |-> disable_flag_text,
     related_args |-> related_args]

all_plugins ==
    << PluginDescriptor("HexHighEntropyString", no_hex_string_scan_flag,
                        <<TupleObject(2, hex_limit_flag, PyInt(3))>>),
       PluginDescriptor("Base64HighEntropyString", no_base64_string_scan_flag,
                        <<TupleObject(2, base64_limit_flag, PyFloat(450))>>),
       PluginDescriptor("PrivateKeyDetector", no_private_key_scan_flag, <<>>),
       PluginDescriptor("BasicAuthDetector", no_basic_auth_scan_flag, <<>>),
       PluginDescriptor("KeywordDetector", no_keyword_scan_flag, <<>>),
       PluginDescriptor("AWSKeyDetector", no_aws_key_scan_flag, <<>>),
       PluginDescriptor("SlackDetector", no_slack_scan_flag, <<>>) >>

\* ------------------------------------------------------------ limit validator
Digits == {"0", "1", "2", "3", "4", "5", "6", "7", "8", "9"}

DigitValue(c) ==
    CASE c = "0" -> 0 [] c = "1" -> 1 [] c = "2" -> 2 [] c = "3" -> 3
      [] c = "4" -> 4 [] c = "5" -> 5 [] c = "6" -> 6 [] c = "7" -> 7
      [] c = "8" -> 8 [] c = "9" -> 9

AllDigits(text) == \A i \in DOMAIN text : text[i] \in Digits

RECURSIVE DigitsValue(_)
DigitsValue(text) ==
    IF text = <<>> THEN 0
    ELSE 10 * DigitsValue(SubSeq(text, 1, Len(text) - 1))
         + DigitValue(text[Len(text)])

\* the fraction digits as hundredths (digits after the second are dropped)
Hundredths(text) ==
    IF Len(text) = 0 THEN 0
    ELSE IF Len(text) = 1 THEN 10 * DigitValue(text[1])
    ELSE DigitsValue(SubSeq(text, 1, 2))

\* Python's float(string) on sign, digits, one optional point, and the words
\* nan and inf; anything else raises ValueError
float(string) ==
    LET signed == Len(string) > 0 /\ string[1] \in {"-", "+"}
        negative == Len(string) > 0 /\ string[1] = "-"
        body == IF signed THEN Tail(string) ELSE string
        points == {i \in DOMAIN body : body[i] = "."}
        point == IF points = {} THEN Len(body) + 1
                 ELSE CHOOSE i \in points : TRUE
        whole == SubSeq(body, 1, point - 1)
        fraction == SubSeq(body, point + 1, Len(body))
        magnitude == 100 * DigitsValue(whole) + Hundredths(fraction)
    IN  IF body = <<"n", "a", "n">> THEN [exc |-> "", value |-> NaN]
        ELSE IF body = <<"i", "n", "f">>
        THEN [exc |-> "", value |-> IF negative THEN NegInf ELSE Inf]
        ELSE IF /\ Cardinality(points) <= 1
                /\ AllDigits(whole) /\ AllDigits(fraction)
                /\ Len(whole) + Len(fraction) > 0
        THEN [exc |-> "",
              value |-> PyFloat(IF negative THEN 0 - magnitude ELSE magnitude)]
        ELSE [exc |-> "ValueError", value |-> None]

\* PluginOptions._argparse_minmax_type
_argparse_minmax_type(string) ==
    LET parsed == float(string)
        value == parsed.value
    IN  IF parsed.exc # "" THEN parsed
        ELSE IF PyLess(value, PyInt(0)) \/ PyGreater(value, PyInt(8))
        THEN [exc |-> "ArgumentTypeError", value |-> None]
        ELSE [exc |-> "", value |-> value]

\* ------------------------------------------------------------ consolidate_args
\* the canary test left out
IsAppropriate_Always(args) == TRUE

\* the canary test `hasattr(args, 'hex_limit')`
IsAppropriate(args) == hasattr(args, canary)

\* the disable flag read with the test inverted
IsDisabled_Inverted(args, arg_name) ==
    IF hasattr(args, arg_name) THEN ~Truthy(args[arg_name]) ELSE FALSE

\* `is_disabled = getattr(args, arg_name, False)`, as `if is_disabled` reads it
IsDisabled(args, arg_name) ==
    IF hasattr(args, arg_name) THEN Truthy(args[arg_name]) ELSE FALSE

\* the default applied never (`default_value and False`)
UseDefault_Never(default_value, value) == FALSE

\* the default applied to every falsy value (`not related_args[arg_name]`)
UseDefault_Falsy(default_value, value) == Truthy(default_value) /\ ~Truthy(value)

\* the default also recorded for a value equal to it
UseDefault_OrEqual(default_value, value) ==
    Truthy(default_value) /\ (IsNone(value) \/ PyEq(value, default_value))

\* `default_value and related_args[arg_name] is None`
UseDefault(default_value, value) == Truthy(default_value) /\ IsNone(value)

\* the related arg read but left on the namespace
ConsumeRelatedArg_Kept(args, arg_name) == args

\* the namespace after `related_args[arg_name] = getattr(args, arg_name)`
\* and `delattr(args, arg_name)`
ConsumeRelatedArg(args, arg_name) == delattr(args, arg_name)

\* the namespace after `delattr(args, arg_name)` of a disable flag
ConsumeDisableFlag(args, arg_name) == delattr(args, arg_name)

\* One pass of the loop over plugin.related_args.  st is the function's local
\* state: the namespace args, the dicts active_plugins, is_using_default_value
\* and related_args, and exc, the exception raised ("" for none).
ConsolidateRelatedArg(st, related_arg_tuple) ==
    LET unpacked == UnpackRelatedArg(related_arg_tuple)
        converted == _convert_flag_text_to_argument_name(unpacked.flag_name)
        arg_name == converted.name
    IN  IF converted.exc # "" THEN [st EXCEPT !.exc = converted.exc]
        ELSE IF ~hasattr(st.args, arg_name)
        THEN [st EXCEPT !.exc = "AttributeError"]
        ELSE LET value == st.args[arg_name]
                 defaulted == UseDefault(unpacked.default_value, value)
             IN  [st EXCEPT
                    !.args = ConsumeRelatedArg(@, arg_name),
                    !.related_args =
                        SetItem(@, arg_name,
                                IF defaulted THEN unpacked.default_value
                                ELSE value),
                    !.is_using_default_value =
                        IF defaulted THEN SetItem(@, arg_name, TRUE) ELSE @]

RECURSIVE ConsolidateRelatedArgs(_, _)
ConsolidateRelatedArgs(st, related_args) ==
    IF related_args = <<>> \/ st.exc # "" THEN st
    ELSE ConsolidateRelatedArgs(ConsolidateRelatedArg(st, Head(related_args)),
                                Tail(related_args))

\* One pass of the loop over PluginOptions.all_plugins
ConsolidatePlugin(st, plugin) ==
    LET arg_name ==
            _convert_flag_text_to_argument_name(
                StrObject(plugin.disable_flag_text)).name
        is_disabled == IsDisabled(st.args, arg_name)
    IN  IF ~hasattr(st.args, arg_name)
        THEN [st EXCEPT !.exc = "AttributeError"]
        ELSE LET removed ==
                     [st EXCEPT !.args = ConsumeDisableFlag(@, arg_name),
                                !.related_args = EmptyDict]
                 related == ConsolidateRelatedArgs(removed, plugin.related_args)
             IN  IF is_disabled THEN removed
                 ELSE IF related.exc # "" THEN related
                 ELSE [related EXCEPT
                         !.active_plugins =
                             SetItem(@, plugin.classname, related.related_args)]

RECURSIVE ConsolidatePlugins(_, _)
ConsolidatePlugins(st, plugins) ==
    IF plugins = <<>> \/ st.exc # "" THEN st
    ELSE ConsolidatePlugins(ConsolidatePlugin(st, Head(plugins)), Tail(plugins))

\* PluginOptions.consolidate_args(args) over the catalog `plugins`: the
\* namespace as the call leaves it, whether args.plugins and
\* args.is_using_default_value were assigned, their values, and the exception
\* that ended the call ("" for a normal return).
consolidate_args(args, plugins) ==
    LET start == [args |-> args,
                  active_plugins |-> [k \in {} |-> EmptyDict],
                  is_using_default_value |-> [k \in {} |-> TRUE],
                  related_args |-> EmptyDict,
                  exc |-> ""]
        end == ConsolidatePlugins(start, plugins)
    IN  IF ~IsAppropriate(args)
        THEN [args |-> args, assigned |-> FALSE,
              plugins |-> start.active_plugins,
              is_using_default_value |-> start.is_using_default_value,
              exc |-> ""]
        ELSE [args |-> end.args, assigned |-> end.exc = "",
              plugins |-> IF end.exc = "" THEN end.active_plugins
                          ELSE start.active_plugins,
              is_using_default_value |->
                  IF end.exc = "" THEN end.is_using_default_value
                  ELSE start.is_using_default_value,
              exc |-> end.exc]

\* PluginOptions.get_disabled_plugins
get_disabled_plugins(active_plugins, plugins) ==
    {plugins[i].classname : i \in {j \in DOMAIN plugins :
        plugins[j].classname \notin DOMAIN active_plugins}}

\* ------------------------------------------------------------ command lines
\* argparse's dest of an option string: the leading dashes stripped, the
\* others replaced by underscores
RECURSIVE lstrip(_, _)
lstrip(text, c) ==
    IF text # <<>> /\ Head(text) = c THEN lstrip(Tail(text), c) ELSE text

argparse_dest(option_string) == replace(lstrip(option_string, "-"), "-", "_")

\* the texts tried after --hex-limit and after --base64-limit
HexLimitStrings ==
    { <<"0", ".", "0">>, <<"8", ".", "0">>, <<"8", ".", "0", "1">>,
      <<"-", "0", ".", "1">>, <<"3", ".", "0">>, <<"3">>, <<"n", "a", "n">>,
      <<"i", "n", "f">>, <<"a", "b", "c">>, <<>> }

Base64LimitStrings ==
    { <<"4", ".", "5">>, <<"-", "i", "n", "f">> }

\* an optional argument with nargs='?': not on the command line, given without
\* a value, or given with the text of a value
LimitArgs(strings) ==
    {[given |-> "absent", text |-> <<>>], [given |-> "bare", text |-> <<>>]}
    \cup {[given |-> "value", text |-> s] : s \in strings}

Modes == {"pre_commit", "scan", "audit"}

\* A command line, by what it holds: the grammar it is parsed with (the
\* pre-commit hook's, or the console's with its subcommand), --version, the
\* number of -v, the number of positionals, the two limits, and the catalog
\* positions of the descriptors whose disable flag is given.
CommandLines ==
    [mode : Modes,
     version : BOOLEAN,
     verbose : {0, 2},
     positionals : 0..1,
     hex_limit : LimitArgs(HexLimitStrings),
     base64_limit : LimitArgs(Base64LimitStrings),
     no_scan : {S \in SUBSET (DOMAIN all_plugins) :
                   Cardinality(S) <= MaxDisableFlags}]

NoCommandLine ==
    [mode |-> "", version |-> FALSE, verbose |-> 0, positionals |-> 0,
     hex_limit |-> [given |-> "absent", text |-> <<>>],
     base64_limit |-> [given |-> "absent", text |-> <<>>],
     no_scan |-> {}]

\* add_pre_commit_arguments and ScanOptions.add_arguments add the plugin
\* option group, AuditOptions.add_arguments does not
HasPluginGroup(mode) == mode \in {"pre_commit", "scan"}

\* what the parser stores for a limit: type= is applied to a given text only
LimitValue(arg) ==
    IF arg.given = "value" THEN _argparse_minmax_type(arg.text)
    ELSE [exc |-> "", value |-> None]

\* the command line is rejected by the grammar (the parser prints usage and
\* exits with status 2)
GrammarError(a) ==
    IF HasPluginGroup(a.mode)
    THEN LimitValue(a.hex_limit).exc # "" \/ LimitValue(a.base64_limit).exc # ""
    ELSE \/ a.positionals = 0
         \/ a.hex_limit.given # "absent"
         \/ a.base64_limit.given # "absent"
         \/ a.no_scan # {}

\* a namespace from a set of <<name, value>> pairs
Namespace(pairs) ==
    [k \in {p[1] : p \in pairs} |-> (CHOOSE p \in pairs : p[1] = k)[2]]

VerboseValue(count) == IF count = 0 THEN None ELSE PyInt(count)

\* the attributes of the plugin option group: _add_custom_limits and
\* _add_opt_out_options
PluginGroupAttributes(a) ==
    { <<argparse_dest(hex_limit_flag), LimitValue(a.hex_limit).value>>,
      <<argparse_dest(base64_limit_flag), LimitValue(a.base64_limit).value>> }
    \cup { <<argparse_dest(all_plugins[i].disable_flag_text),
             IF i \in a.no_scan THEN True ELSE False>> : i \in DOMAIN all_plugins }

\* the namespace the parser returns for an accepted command line
ParsedNamespace(a) ==
    Namespace(
        {<<dest_verbose, VerboseValue(a.verbose)>>}
        \cup
        (CASE a.mode = "pre_commit" ->
                { <<dest_filenames, PyList(a.positionals, "filenames")>>,
                  <<dest_baseline, PyList(1, "['']")>>,
                  <<dest_exclude_lines, None>>,
                  <<dest_use_all_plugins, False>> }
           [] a.mode = "scan" ->
                { <<dest_action, PyStr("scan")>>,
                  <<dest_path, PyStr(IF a.positionals = 0 THEN "." ELSE "path")>>,
                  <<dest_exclude_lines, None>>,
                  <<dest_exclude_files, None>>,
                  <<dest_import_filename, None>>,
                  <<dest_use_all_plugins, False>>,
                  <<dest_all_files, False>>,
                  <<dest_string, None>> }
           [] OTHER ->
                { <<dest_action, PyStr("audit")>>,
                  <<dest_filename, PyList(a.positionals, "filename")>>,
                  <<dest_diff, False>> })
        \cup
        (IF HasPluginGroup(a.mode) THEN PluginGroupAttributes(a) ELSE {}))

\* ------------------------------------------------ namespaces of direct callers
\* consolidate_args is a public static method: a caller may hand it any
\* namespace.  The namespaces tried hold three attributes outside the plugin
\* group and the plugin group's attributes, but for at most MaxMissing of them.
PluginGroupNames ==
    {ArgumentName(hex_limit_flag), ArgumentName(base64_limit_flag)}
    \cup {ArgumentName(all_plugins[i].disable_flag_text) : i \in DOMAIN all_plugins}

HexLimitValues == {None, PyFloat(0), PyFloat(300)}
Base64LimitValues == {None, PyFloat(450)}

OtherAttributes ==
    { <<dest_verbose, PyInt(1)>>, <<dest_exclude_lines, None>>,
      <<dest_filenames, PyList(1, "filenames")>> }

FullNamespace(hex_limit, base64_limit, disabled) ==
    Namespace(
        OtherAttributes
        \cup { <<ArgumentName(hex_limit_flag), hex_limit>>,
               <<ArgumentName(base64_limit_flag), base64_limit>> }
        \cup { <<ArgumentName(all_plugins[i].disable_flag_text),
                 IF i \in disabled THEN True ELSE False>> :
               i \in DOMAIN all_plugins })

Without(ns, missing) == [k \in (DOMAIN ns) \ missing |-> ns[k]]

CallerNamespaces ==
    { Without(FullNamespace(h, b, d), m) :
        h \in HexLimitValues, b \in Base64LimitValues,
        d \in SUBSET (DOMAIN all_plugins),
        m \in {M \in SUBSET PluginGroupNames : Cardinality(M) <= MaxMissing} }

\* ------------------------------------------------------------ state machine
VARIABLES
    pc,                     \* where the invocation stands
    entry,                  \* "parse_args" or "consolidate_args": what was called
    catalog,                \* PluginOptions.all_plugins
    argv,                   \* the command line handed to parse_args
    raw,                    \* the namespace as consolidate_args received it
    args,                   \* the namespace object (parse_args' output)
    assigned,               \* args.plugins and args.is_using_default_value exist
    plugins,                \* args.plugins
    is_using_default_value, \* args.is_using_default_value
    exc,                    \* the exception that ended the invocation, or ""
    consolidations          \* number of calls of consolidate_args so far

vars == <<pc, entry, catalog, argv, raw, args, assigned, plugins,
          is_using_default_value, exc, consolidations>>

EmptyNamespace == [k \in {} |-> None]

Start(plugin_catalog) ==
    /\ pc = "start"
    /\ entry = ""
    /\ catalog = plugin_catalog
    /\ argv = NoCommandLine
    /\ raw = EmptyNamespace
    /\ args = EmptyNamespace
    /\ assigned = FALSE
    /\ plugins = [k \in {} |-> EmptyDict]
    /\ is_using_default_value = [k \in {} |-> TRUE]
    /\ exc = ""
    /\ consolidations = 0

Init == Start(all_plugins)

\* the effect of consolidate_args(ns) on the invocation's state
Consolidate(ns) ==
    LET result == consolidate_args(ns, catalog)
    IN  /\ raw' = ns
        /\ args' = result.args
        /\ assigned' = result.assigned
        /\ plugins' = result.plugins
        /\ is_using_default_value' = result.is_using_default_value
        /\ exc' = result.exc
        /\ consolidations' = consolidations + 1
        /\ pc' = IF result.exc = "" THEN "consolidated" ELSE "raised"

\* --version declared as a stored flag: parsing goes on to line 58
ParseVersion_StoreTrue ==
    /\ pc = "start"
    /\ \E a \in CommandLines :
        /\ a.version
        /\ HasPluginGroup(a.mode)
        /\ argv' = a
        /\ args' = Namespace(PluginGroupAttributes(a))
    /\ entry' = "parse_args"
    /\ pc' = "parsed"
    /\ UNCHANGED <<catalog, raw, assigned, plugins, is_using_default_value,
                   exc, consolidations>>

\* parse_args, line 57, on a command line with --version: the parser prints
\* the version and exits
ParseVersion ==
    /\ pc = "start"
    /\ \E a \in CommandLines :
        /\ a.version
        /\ argv' = a
    /\ entry' = "parse_args"
    /\ pc' = "exit"
    /\ exc' = "SystemExit(0)"
    /\ UNCHANGED <<catalog, raw, args, assigned, plugins,
                   is_using_default_value, consolidations>>

\* parse_args, line 57, on a command line the grammar rejects.  With --version
\* as well, the parser exits on whichever it meets first.
ParseError ==
    /\ pc = "start"
    /\ \E a \in CommandLines :
        /\ GrammarError(a)
        /\ argv' = a
    /\ entry' = "parse_args"
    /\ pc' = "exit"
    /\ exc' = "SystemExit(2)"
    /\ UNCHANGED <<catalog, raw, args, assigned, plugins,
                   is_using_default_value, consolidations>>

\* parse_args, line 57, on an accepted command line
ParseOk ==
    /\ pc = "start"
    /\ \E a \in CommandLines :
        /\ ~a.version
        /\ ~GrammarError(a)
        /\ argv' = a
        /\ args' = ParsedNamespace(a)
    /\ entry' = "parse_args"
    /\ pc' = "parsed"
    /\ UNCHANGED <<catalog, raw, assigned, plugins, is_using_default_value,
                   exc, consolidations>>

\* parse_args, line 58
ParseArgsConsolidate ==
    /\ pc = "parsed"
    /\ Consolidate(args)
    /\ UNCHANGED <<entry, catalog, argv>>

\* parse_args, line 60
ParseArgsReturn ==
    /\ pc = "consolidated"
    /\ entry = "parse_args"
    /\ pc' = "returned"
    /\ UNCHANGED <<entry, catalog, argv, raw, args, assigned, plugins,
                   is_using_default_value, exc, consolidations>>

\* a caller's own PluginOptions.consolidate_args(ns)
CallConsolidateArgs ==
    /\ pc = "start"
    /\ \E ns \in CallerNamespaces : Consolidate(ns)
    /\ entry' = "consolidate_args"
    /\ UNCHANGED <<catalog, argv>>

Next ==
    \/ ParseVersion
    \/ ParseError
    \/ ParseOk
    \/ ParseArgsConsolidate
    \/ ParseArgsReturn
    \/ CallConsolidateArgs

Spec == Init /\ [][Next]_vars

\* ------------------------------------------- catalogs with a malformed entry
\* the shapes a related_args entry can take instead of (flag, default): the
\* bare flag text, a 1-tuple, a 3-tuple
MalformedEntries(flag_text, default_value) ==
    { StrObject(flag_text),
      TupleObject(1, flag_text, None),
      TupleObject(3, flag_text, default_value) }

\* all_plugins with the entry of descriptor i replaced
WithEntry(i, related_arg) ==
    [all_plugins EXCEPT ![i].related_args = <<related_arg>>]

MalformedCatalogs ==
    { WithEntry(i, e) :
        i \in {1},
        e \in MalformedEntries(all_plugins[1].related_args[1].chars,
                               all_plugins[1].related_args[1].default) }
    \cup
    { WithEntry(i, e) :
        i \in {2},
        e \in MalformedEntries(all_plugins[2].related_args[1].chars,
                               all_plugins[2].related_args[1].default) }

InitMalformed == \E c \in MalformedCatalogs : Start(c)

SpecMalformed == InitMalformed /\ [][Next]_vars

\* ------------------------------------------------------------ properties
hex_limit == ArgumentName(hex_limit_flag)
base64_limit == ArgumentName(base64_limit_flag)

\* consolidate_args has run and returned normally
Returned == pc \in {"consolidated", "returned"}

DisableName(plugin) == ArgumentName(plugin.disable_flag_text)

\* the descriptor's disable flag is set in the raw input
RawDisabled(plugin) ==
    DisableName(plugin) \in DOMAIN raw /\ Truthy(raw[DisableName(plugin)])

\* the identifiers of the related params a descriptor declares
DeclaredParams(plugin) ==
    {ArgumentName(plugin.related_args[j].chars) : j \in DOMAIN plugin.related_args}

Enabled(plugin_catalog) ==
    {i \in DOMAIN plugin_catalog : ~RawDisabled(plugin_catalog[i])}

\* usingDefaultValue is true for the parameter
Marked(name) ==
    name \in DOMAIN is_using_default_value /\ is_using_default_value[name]

\* C1: after consolidate_args on a raw input that holds the hex-limit
\* identifier, the keys of args.plugins are exactly the classnames of the
\* descriptors whose disable flag is not set, and each one's parameter map
\* holds exactly the descriptor's declared related params (none for the five
\* parameterless detectors).
C1_ActivePluginsAreTheEnabled ==
    (Returned /\ hasattr(raw, canary)) =>
        /\ assigned
        /\ DOMAIN plugins = {catalog[i].classname : i \in Enabled(catalog)}
        /\ get_disabled_plugins(plugins, catalog)
             = {catalog[i].classname : i \in DOMAIN catalog \ Enabled(catalog)}
        /\ \A i \in Enabled(catalog) :
               DOMAIN plugins[catalog[i].classname] = DeclaredParams(catalog[i])
        /\ \A i \in Enabled(catalog) :
               catalog[i].related_args = <<>> =>
                   plugins[catalog[i].classname] = EmptyDict
        /\ Cardinality({i \in DOMAIN catalog : catalog[i].related_args = <<>>})
             = Len(catalog) - Cardinality({hex_limit, base64_limit})

\* the scenario of C1: hex enabled, base64 disabled, private key present with
\* an empty parameter map
C1_Witness ==
    /\ Returned /\ assigned
    /\ "HexHighEntropyString" \in DOMAIN plugins
    /\ "Base64HighEntropyString" \notin DOMAIN plugins
    /\ "PrivateKeyDetector" \in DOMAIN plugins
    /\ plugins["PrivateKeyDetector"] = EmptyDict
    /\ DOMAIN plugins["HexHighEntropyString"] = {hex_limit}

\* C2: for a descriptor that is not disabled, a related param whose raw value
\* is None and whose default is non-zero is consolidated to the default
\* (3.0 for hex_limit, 4.5 for base64_limit) and marked in
\* is_using_default_value.
C2_AbsentValueTakesDefault ==
    (Returned /\ hasattr(raw, canary)) =>
        \A i \in Enabled(catalog) :
            \A j \in DOMAIN catalog[i].related_args :
                LET name == ArgumentName(catalog[i].related_args[j].chars)
                    default_value == catalog[i].related_args[j].default
                IN  (IsNone(raw[name]) /\ Truthy(default_value)) =>
                        /\ PyEq(plugins[catalog[i].classname][name], default_value)
                        /\ PyEq(plugins[catalog[i].classname][name],
                                IF name = hex_limit THEN PyFloat(300)
                                ELSE PyFloat(450))
                        /\ Marked(name)

C2_Witness ==
    /\ Returned /\ assigned
    /\ IsNone(raw[hex_limit])
    /\ "HexHighEntropyString" \in DOMAIN plugins
    /\ PyEq(plugins["HexHighEntropyString"][hex_limit], PyFloat(300))
    /\ Marked(hex_limit)
    /\ "Base64HighEntropyString" \notin DOMAIN plugins

\* C3: for a descriptor that is not disabled, a related param whose raw value
\* was supplied and is falsy (0.0) keeps that value and is not marked in
\* is_using_default_value.
C3_ExplicitZeroIsKept ==
    (Returned /\ hasattr(raw, canary)) =>
        \A i \in Enabled(catalog) :
            \A j \in DOMAIN catalog[i].related_args :
                LET name == ArgumentName(catalog[i].related_args[j].chars)
                IN  (~IsNone(raw[name]) /\ ~Truthy(raw[name])) =>
                        /\ plugins[catalog[i].classname][name] = raw[name]
                        /\ ~Marked(name)

C3_Witness ==
    /\ Returned /\ assigned
    /\ raw[hex_limit] = PyFloat(0)
    /\ ~RawDisabled(catalog[1])
    /\ plugins["HexHighEntropyString"][hex_limit] = PyFloat(0)
    /\ ~Marked(hex_limit)

\* C4: on a raw input without the hex-limit identifier consolidate_args
\* returns without an exception, assigns neither args.plugins nor
\* args.is_using_default_value, and leaves every attribute as it was.
C4_NoCanaryIsNoOp ==
    (consolidations > 0 /\ ~hasattr(raw, canary)) =>
        /\ Returned
        /\ exc = ""
        /\ ~assigned
        /\ args = raw

\* a namespace without hex_limit that still holds the rest of the plugin group,
\* and the audit subcommand's namespace
C4_Witness ==
    /\ consolidations > 0
    /\ ~hasattr(raw, canary)
    /\ \/ base64_limit \in DOMAIN raw /\ DisableName(catalog[1]) \in DOMAIN raw
       \/ argv.mode = "audit"

\* C5: on a raw input that holds the hex-limit identifier but lacks the
\* disable-flag identifier of some descriptor, consolidate_args completes
\* without raising and the descriptor, taken as not disabled, appears in
\* args.plugins.
C5_MissingDisableFlagIsTolerated ==
    (consolidations > 0 /\ hasattr(raw, canary)
        /\ base64_limit \in DOMAIN raw) =>
        \A i \in DOMAIN catalog :
            DisableName(catalog[i]) \notin DOMAIN raw =>
                /\ exc = ""
                /\ Returned
                /\ catalog[i].classname \in DOMAIN plugins

\* the number a limit text denotes lies in [0.0, 8.0]
InRange(value) == IsFinite(value) /\ 0 <= value.n /\ value.n <= 800

\* a command line of a grammar with the plugin group on which only --hex-limit
\* can be rejected
OnlyHexLimitGiven ==
    /\ entry = "parse_args"
    /\ HasPluginGroup(argv.mode)
    /\ ~argv.version
    /\ argv.hex_limit.given = "value"
    /\ argv.base64_limit.given = "absent"

\* C6: the limit validator accepts a text exactly when it denotes a number in
\* the inclusive range [0.0, 8.0], and then stores that number; texts of
\* numbers outside the range and texts that denote no number are rejected by
\* the parser.
C6_LimitAcceptedIffInRange ==
    OnlyHexLimitGiven =>
        /\ pc = "exit" <=> ~(float(argv.hex_limit.text).exc = ""
                             /\ InRange(float(argv.hex_limit.text).value))
        /\ pc = "parsed" => /\ InRange(args[hex_limit])
                            /\ args[hex_limit] = float(argv.hex_limit.text).value

\* a related_args entry that is no (flag, default) pair
Malformed(related_arg) == ~(related_arg.type = "tuple" /\ related_arg.len = 2)

HasMalformedEntry(plugin) ==
    \E j \in DOMAIN plugin.related_args : Malformed(plugin.related_args[j])

\* a related_args entry that is a tuple of a length other than 2
MalformedTuple(related_arg) == related_arg.type = "tuple" /\ related_arg.len # 2

\* C7 as stated: when a descriptor of the catalog carries a malformed
\* related-param entry (a bare flag text, a 1-tuple, a 3-tuple),
\* consolidate_args ends with an exception and assigns nothing.  Stated for
\* the calls that reach the entry: the raw input holds every plugin-group
\* identifier and the descriptor is not disabled.
C7_MalformedEntryAlwaysRaises ==
    (consolidations > 0 /\ PluginGroupNames \subseteq DOMAIN raw
        /\ \E i \in Enabled(catalog) : HasMalformedEntry(catalog[i])) =>
        /\ pc = "raised"
        /\ exc # ""
        /\ ~assigned

\* C7 amended: when a descriptor that is not disabled carries an entry that is
\* a tuple of a length other than 2, consolidate_args on a raw input with the
\* hex-limit identifier raises AttributeError and never assigns args.plugins
\* or args.is_using_default_value; a bare flag text is taken as a parameter
\* without a default (its raw value is kept, None included, and never marked);
\* and the entries of a disabled descriptor are not examined.
C7_MalformedTupleRaises ==
    (consolidations > 0 /\ hasattr(raw, canary)) =>
        /\ (\E i \in Enabled(catalog) :
               \E j \in DOMAIN catalog[i].related_args :
                   MalformedTuple(catalog[i].related_args[j])) =>
               (pc = "raised" /\ exc = "AttributeError" /\ ~assigned)
        /\ Returned =>
               \A i \in Enabled(catalog) :
                   \A j \in DOMAIN catalog[i].related_args :
                       LET related_arg == catalog[i].related_args[j]
                           name == ArgumentName(related_arg.chars)
                       IN  related_arg.type = "str" =>
                               /\ plugins[catalog[i].classname][name] = raw[name]
                               /\ ~Marked(name)
        /\ (PluginGroupNames \subseteq DOMAIN raw) =>
               (pc = "raised" <=>
                   \E i \in Enabled(catalog) :
                       \E j \in DOMAIN catalog[i].related_args :
                           MalformedTuple(catalog[i].related_args[j]))

\* a 1-tuple or 3-tuple of an enabled descriptor has made the call raise after
\* the namespace was already changed
C7_Witness ==
    /\ pc = "raised"
    /\ exc = "AttributeError"
    /\ PluginGroupNames \subseteq DOMAIN raw
    /\ args # raw
    /\ \E i \in Enabled(catalog) :
           \E j \in DOMAIN catalog[i].related_args :
               MalformedTuple(catalog[i].related_args[j])

\* C8: in parse_args consolidate_args runs at most once and only on a command
\* line the parser accepted: with --version or a grammar error the invocation
\* has exited with consolidate_args never called and args.plugins /
\* args.is_using_default_value never assigned.
C8_ConsolidationOnlyAfterParse ==
    entry = "parse_args" =>
        /\ consolidations <= 1
        /\ consolidations = 1 => pc \in {"consolidated", "returned", "raised"}
        /\ (argv.version \/ GrammarError(argv)) =>
               /\ pc = "exit"
               /\ consolidations = 0
               /\ ~assigned
               /\ DOMAIN args = {}

\* --version together with a limit out of range: the invocation has exited
C8_Witness ==
    /\ entry = "parse_args"
    /\ pc = "exit"
    /\ argv.version
    /\ argv.hex_limit.text = <<"8", ".", "0", "1">>
    /\ consolidations = 0

\* C9: is_using_default_value marks a parameter only if it belongs to a
\* descriptor that is not disabled, its raw value was None, and its
\* consolidated value equals the descriptor's default; a value given
\* explicitly is not marked even when it equals the default.
C9_MarkedOnlyWhenDefaulted ==
    (Returned /\ hasattr(raw, canary)) =>
        \A name \in DOMAIN is_using_default_value :
            is_using_default_value[name] =>
                \E i \in Enabled(catalog) :
                    \E j \in DOMAIN catalog[i].related_args :
                        /\ name = ArgumentName(catalog[i].related_args[j].chars)
                        /\ IsNone(raw[name])
                        /\ PyEq(plugins[catalog[i].classname][name],
                                catalog[i].related_args[j].default)

\* hex_limit = 3.0 given explicitly, base64 disabled with its limit not given
C9_Witness ==
    /\ Returned /\ assigned
    /\ PluginGroupNames \subseteq DOMAIN raw
    /\ ~RawDisabled(catalog[1])
    /\ raw[hex_limit] = PyFloat(300)
    /\ plugins["HexHighEntropyString"][hex_limit] = PyFloat(300)
    /\ ~Marked(hex_limit)
    /\ RawDisabled(catalog[2])
    /\ IsNone(raw[base64_limit])
    /\ ~Marked(base64_limit)

\* the attributes consolidate_args consumes: every disable flag, and the
\* related params of the descriptors that are not disabled
Consumed ==
    {DisableName(catalog[i]) : i \in DOMAIN catalog}
    \cup UNION {DeclaredParams(catalog[i]) : i \in Enabled(catalog)}

\* C10: on a raw input with every plugin-group identifier, consolidate_args
\* removes exactly the consumed attributes; the related param of a disabled
\* descriptor and every attribute outside the plugin group stay, with their
\* values.
C10_ExactlyConsumedRemoved ==
    (Returned /\ PluginGroupNames \subseteq DOMAIN raw) =>
        /\ DOMAIN args = (DOMAIN raw) \ Consumed
        /\ \A k \in DOMAIN args : args[k] = raw[k]
        /\ \A i \in DOMAIN catalog \ Enabled(catalog) :
               DeclaredParams(catalog[i]) \subseteq DOMAIN args
        /\ (DOMAIN raw) \ PluginGroupNames \subseteq DOMAIN args

\* hex disabled: hex_limit stays on the namespace, base64_limit is consumed
C10_Witness ==
    /\ Returned /\ assigned
    /\ RawDisabled(catalog[1])
    /\ ~RawDisabled(catalog[2])
    /\ hex_limit \in DOMAIN args
    /\ base64_limit \notin DOMAIN args
    /\ dest_verbose \in DOMAIN args
    /\ DisableName(catalog[1]) \notin DOMAIN args

====
